---- MODULE Spec2Model ----
(***************************************************************************)
(* NetworkConnectionMonitor of professional_multitheme_launcher_v2.py:     *)
(* the periodic scheduler loop, the delayed initial check, force_check(),  *)
(* the batched worker threads and the shared health_data dictionary; and   *)
(* ProcessManager, the table of the scripts the launcher has started.      *)
(*                                                                         *)
(* Every Python thread is a process with a program counter; one action is  *)
(* one step between two accesses of shared state (the interpreter may      *)
(* switch threads between any two bytecodes, so the test of                *)
(* check_in_progress and the assignment that follows it are two steps).    *)
(***************************************************************************)
EXTENDS Integers, Sequences, FiniteSets, Bags, TLC

VARIABLES
    running,            \* self.running
    check_in_progress,  \* self.check_in_progress
    health_data,        \* the dict object self.health_data: name -> record
    config,             \* master_config.json on disk
    app_settings,       \* the global settings dict
    network,            \* what the network does to the probes
    probe,              \* one call of _check_single_node followed statement by statement
    late_cycles,        \* history: cycles the loop thread has started since stop()
    in_flight,          \* history: the running workers of each node name, in the order of their start
    restart,            \* what a start() on a monitor already started did
    timed,              \* one batch of joins followed on the clock
    processes,          \* ProcessManager.processes: script key -> entry
    process_lock,       \* the holder of ProcessManager.process_lock
    alive,              \* the child processes running in the operating system
    pm,                 \* the call of the ProcessManager the Tk thread is in
    pc,                 \* position of each thread that may run a cycle
    frame,              \* locals of _check_connections_safely, per thread
    workers,            \* the running _check_single_node threads: a bag of their arguments
    ui,                 \* what force_check() last returned to the Tk thread
    reader,             \* what the last get_health_data() returned
    log,                \* history: starts and joins of the thread's current cycle
    owes,               \* history: the thread set the flag and has not reset it yet
    outcome,            \* history: how the call of _check_connections_safely the thread has just left ended
    written             \* history: the record of the most recent write, per node name

\* the state of the ProcessManager
pmVars == <<processes, process_lock, alive, pm>>

\* the state of the NetworkConnectionMonitor, its environment and its histories
monitorVars == <<running, check_in_progress, health_data, config, app_settings, network,
                 in_flight, restart, probe, late_cycles,
                 pc, frame, workers, ui, reader, log, owes, outcome, written>>

vars == <<running, check_in_progress, health_data, config, app_settings, network, in_flight, restart, timed, pmVars,
          probe, late_cycles, pc, frame, workers, ui, reader, log, owes, outcome, written>>

(***************************************************************************)
(* Bounds of the model.                                                    *)
(***************************************************************************)
MaxNodes == 3        \* longest node list (under BatchSpec)
MaxConcurrent == 2   \* largest max_concurrent_checks
MaxThreads == 2      \* worker threads the process can run at once
MaxLaunches == 3     \* scripts launched in one run of the ProcessManager

(***************************************************************************)
(* Program constants.                                                      *)
(***************************************************************************)
SshPort == 22
TelnetPort == 23
SlowMs == 1000
VerySlowMs == 3000
MinResponseMs == 1

(***************************************************************************)
(* Small helpers for Python values.                                        *)
(***************************************************************************)
Range(s) == {s[x] : x \in DOMAIN s}

Max(a, b) == IF a >= b THEN a ELSE b

Min(a, b) == IF a <= b THEN a ELSE b

\* dict.get(key, default)
Get(d, key, default) == IF key \in DOMAIN d THEN d[key] ELSE default

\* str.lower() on the type strings that occur in the configurations
Lower(s) ==
    CASE s = "SSH" -> "ssh"
      [] s = "Telnet" -> "telnet"
      [] s = "Router" -> "router"
      [] OTHER -> s

\* seq[i:i+k] with 0-based i, as Python slices (clipped at the end)
Slice(s, i, k) == SubSeq(s, i + 1, Min(i + k, Len(s)))

EmptyDict == [x \in {} |-> 0]

(***************************************************************************)
(* The configurations and settings the model draws from.                   *)
(***************************************************************************)
\* Node entries as they stand in master_config.json; the first has no
\* 'type' key, so node.get('type', 'unknown') supplies the default.
AllNodes ==
    << [name |-> "R1", ip |-> "10.0.0.1"],
       [name |-> "R2", ip |-> "10.0.0.2", type |-> "telnet"],
       [name |-> "R3", ip |-> "10.0.0.3", type |-> "SSH"],
       [name |-> "R4", ip |-> "10.0.0.4", type |-> "Router"] >>

NodeLists(longest) == {SubSeq(AllNodes, 1, n) : n \in 0..longest}

Names == {AllNodes[x].name : x \in 1..Len(AllNodes)}

\* master_config.json: missing, not JSON, a document without a 'nodes' key,
\* or a document whose 'nodes' is one of the lists
ConfigFiles(longest) ==
    { [exists |-> FALSE, valid |-> FALSE, doc |-> EmptyDict],
      [exists |-> TRUE, valid |-> FALSE, doc |-> EmptyDict],
      [exists |-> TRUE, valid |-> TRUE, doc |-> EmptyDict] }
    \cup { [exists |-> TRUE, valid |-> TRUE, doc |-> [x \in {"nodes"} |-> l]] : l \in NodeLists(longest) }

DefaultNodeTimeout == 2

\* the largest value the settings dialog's Spinbox offers for node_timeout
MaxNodeTimeout == 10

Settings ==
    { [max_concurrent_checks |-> k, node_timeout |-> DefaultNodeTimeout] : k \in 0..MaxConcurrent }

\* elapsed milliseconds a probe may measure at the end of an attempt
ElapsedMs == {0, 1500}

(***************************************************************************)
(* _check_connectivity, _get_recommendation and the record a probe makes.  *)
(***************************************************************************)
\* a port selection that tries telnet first for the other types
TestPortsTelnetFirst(node_type) ==
    IF node_type = "ssh" THEN <<SshPort>>
    ELSE IF node_type = "telnet" THEN <<TelnetPort>>
    ELSE <<TelnetPort, SshPort>>

TestPorts(node_type) ==
    IF node_type = "ssh" THEN <<SshPort>>
    ELSE IF node_type = "telnet" THEN <<TelnetPort>>
    ELSE <<SshPort, TelnetPort>>

\* What the network does to the attempts of one probe: for each candidate
\* port the result of connect_ex ("connected", "refused") or "raised" for an
\* exception of socket(), settimeout() or connect_ex(), and the elapsed time
\* read after it; elapsed times do not decrease.  On a network that is
\* "down" every connect is refused at once; on "any" network anything happens.
Attempts(ports, net) ==
    IF net = "down"
    THEN { [x \in 1..Len(ports) |-> [result |-> "refused", at |-> 0]] }
    ELSE { a \in [1..Len(ports) -> [result : {"connected", "refused", "raised"}, at : ElapsedMs]] :
             \A x \in 1..Len(ports) : \A y \in 1..Len(ports) : x <= y => a[x].at <= a[y].at }

\* the for loop of _check_connectivity from port number p on; rt is the
\* local response_time: <<>> until line 1740 assigns it, then <<value>>
RECURSIVE ProbeFrom(_, _, _, _)
ProbeFrom(ports, att, p, rt) ==
    IF p > Len(ports)
    THEN IF rt = <<>>
         THEN <<FALSE, att[Len(ports)].at>>   \* UnboundLocalError, caught at 1743
         ELSE <<FALSE, rt[1]>>
    ELSE IF att[p].result = "connected"
         THEN <<TRUE, Max(att[p].at, MinResponseMs)>>
         ELSE IF att[p].result = "raised"
              THEN ProbeFrom(ports, att, p + 1, rt)
              ELSE ProbeFrom(ports, att, p + 1, <<att[p].at>>)

_check_connectivity(node_type, att) == ProbeFrom(TestPorts(node_type), att, 1, <<>>)

_get_recommendation(is_healthy, response_time, node_type) ==
    IF ~is_healthy
    THEN IF node_type = "ssh" THEN "SSH connection failed - verify SSH service running"
         ELSE IF node_type = "telnet" THEN "Telnet connection failed - verify telnet service running"
         ELSE "Connection failed - verify node is online"
    ELSE IF response_time > VerySlowMs THEN "Very slow response (>3s) - check network performance"
    ELSE IF response_time > SlowMs THEN "Slow response (>1s) - monitor network performance"
    ELSE "Good connection - healthy network connectivity"

NodeName(node) == Get(node, "name", "Unknown")

NodeIp(node) == Get(node, "ip", "")

NodeType(node) == Lower(Get(node, "type", "unknown"))

\* datetime.now(): no claim compares two timestamps, so one value stands for all
Now == "now"

\* the dict literal of lines 1700-1706, built from one probe of one node
\* whose attempts went as att
ProbeRecord(node, att) ==
    LET res == _check_connectivity(NodeType(node), att)
    IN [ip |-> NodeIp(node), type |-> NodeType(node),
        status |-> IF res[1] THEN "Healthy" ELSE "Unhealthy",
        response_time |-> res[2],
        last_check |-> Now,
        recommendation |-> _get_recommendation(res[1], res[2], NodeType(node))]


\* every record one probe of the node can produce
ProbeRecords(node, net) ==
    {ProbeRecord(node, att) : att \in Attempts(TestPorts(NodeType(node)), net)}

(***************************************************************************)
(* Threads and their state.                                                *)
(***************************************************************************)
\* threads whose target is, or calls, _check_connections_safely
ForceThreads == {"force1"}

CycleThreads == {"loop", "init"} \cup ForceThreads

BlankFrame ==
    [nodes |-> <<>>, max_concurrent |-> 0, timeout |-> 0, i |-> 0, j |-> 0,
     threads |-> <<>>, raised |-> FALSE]

\* where a thread goes when _check_connections_safely returns
Return(t) ==
    IF t = "loop" THEN "sleep"          \* line 1643
    ELSE IF t = "init" THEN "done"      \* end of _safe_immediate_check
    ELSE "unspawned"                    \* the Thread of force_check ends

\* the batch of the current iteration: nodes[i:i + max_concurrent]
Batch(f) == Slice(f.nodes, f.i, f.max_concurrent)

\* a worker that is given the node_timeout the settings hold at its start
WorkerLiveTimeout(node, timeout) == [node |-> node, timeout |-> app_settings.node_timeout]

\* the arguments (node, timeout) of one _check_single_node thread
Worker(node, timeout) == [node |-> node, timeout |-> timeout]

\* workers is a bag: the number of running threads per argument pair
Running == DOMAIN workers

Live == IF Running = {} THEN 0 ELSE BagCardinality(workers)

EmptyWorkers == EmptyBag

Launched(ws, w) == ws (+) SetToBag({w})

Ended(ws, w) == ws (-) SetToBag({w})

\* a writer that updates the status of an existing record in place
StoreStatusOnly(hd, name, rec) ==
    [n \in DOMAIN hd \cup {name} |->
        IF n # name THEN hd[n]
        ELSE IF name \in DOMAIN hd THEN [hd[name] EXCEPT !.status = rec.status]
        ELSE rec]

\* a writer that rebuilds the dict from the record it writes
StoreFresh(hd, name, rec) == [n \in {name} |-> rec]

\* a writer that keeps the record a name already has
StoreFirstWins(hd, name, rec) ==
    [n \in DOMAIN hd \cup {name} |-> IF n \in DOMAIN hd THEN hd[n] ELSE rec]

\* self.health_data[node_name] = record
StoreRecord(hd, name, rec) ==
    [n \in DOMAIN hd \cup {name} |-> IF n = name THEN rec ELSE hd[n]]

\* a get_health_data() that returns self.health_data itself
SnapshotAlias(hd) == [ref |-> "alias", copy |-> EmptyDict]

\* what get_health_data() hands to its caller: a new dict with the same items
SnapshotOf(hd) == [ref |-> "copy", copy |-> hd]

\* the mapping the reader holds
Seen == IF reader.ref = "alias" THEN health_data ELSE reader.copy

\* no call of _check_single_node is being followed
NoProbe == [pc |-> "none"]

\* no batch is being followed on the clock
NoTimed == [pc |-> "none"]

\* a worker that has just been started
Fly(w) == [w |-> w, superseded |-> FALSE]

\* the running workers of one node after the one at position p of fl has
\* written and ended: those that were started before it are superseded from
\* then on
Retire(fl, p) ==
    LET marked == [x \in DOMAIN fl |->
                      IF x < p THEN [fl[x] EXCEPT !.superseded = TRUE] ELSE fl[x]]
    IN SubSeq(marked, 1, p - 1) \o SubSeq(marked, p + 1, Len(fl))

\* no worker is running
NoneInFlight == [n \in Names |-> <<>>]

\* the Tk thread is in no call of the ProcessManager
IdleCall(spawned) ==
    [op |-> "none", pc |-> "idle", key |-> "none", keys |-> <<>>, count |-> 0,
     from |-> "none", ret |-> "none", spawned |-> spawned]

\* ProcessManager.__init__: lines 1780-1782
PMInit ==
    /\ processes = EmptyDict
    /\ process_lock = "free"
    /\ alive = {}
    /\ pm = IdleCall(0)

(***************************************************************************)
(* Init: the state after NetworkConnectionMonitor() and before start().    *)
(***************************************************************************)
InitWith(longest, net) ==
    /\ running = TRUE
    /\ check_in_progress = FALSE
    /\ health_data = EmptyDict
    /\ config \in ConfigFiles(longest)
    /\ app_settings \in Settings
    /\ network = net
    /\ probe = NoProbe
    /\ late_cycles = 0
    /\ in_flight = NoneInFlight
    /\ restart = "none"
    /\ timed = NoTimed
    /\ PMInit
    /\ pc = [t \in CycleThreads |->
                IF t = "loop" THEN "new" ELSE IF t = "init" THEN "unstarted" ELSE "unspawned"]
    /\ frame = [t \in CycleThreads |-> BlankFrame]
    /\ workers = EmptyWorkers
    /\ ui = "none"
    /\ reader = [ref |-> "none", copy |-> EmptyDict]
    /\ log = [t \in CycleThreads |-> <<>>]
    /\ owes = [t \in CycleThreads |-> FALSE]
    /\ outcome = [t \in CycleThreads |-> "none"]
    /\ written = EmptyDict

\* the scheduler's threads race in the same way whatever the length of the
\* node list: Spec takes the lists of at most one node
Init == InitWith(1, "any")

\* the batches do not depend on what the probes find: BatchSpec takes the
\* longest lists, on a network that is down
BatchInit == InitWith(MaxNodes, "down")

\* two names are enough for a reader to tell the records apart
StoreInit == InitWith(2, "any")

(***************************************************************************)
(* start(), stop(), the scheduler loop and the delayed initial check.      *)
(***************************************************************************)
\* start(): lines 1620-1623
Start ==
    /\ pc["loop"] = "new"
    /\ pc' = [pc EXCEPT !["loop"] = "while", !["init"] = "sleep3"]
    /\ UNCHANGED <<running, check_in_progress, health_data, config, app_settings, network,
                   in_flight, restart, timed, pmVars, probe, late_cycles,
                   frame, workers, ui, reader, log, owes, outcome, written>>

\* start() on a monitor whose thread has been started before: Thread.start()
\* raises RuntimeError ("threads can only be started once") at line 1621, so
\* no thread is started, line 1623 is not reached, and start() has no
\* assignment to self.running
StartAgain ==
    /\ pc["loop"] # "new"
    /\ restart = "none"
    /\ restart' = "RuntimeError"
    /\ UNCHANGED <<running, check_in_progress, health_data, config, app_settings, network,
                   in_flight, timed, pmVars, probe, late_cycles,
                   pc, frame, workers, ui, reader, log, owes, outcome, written>>

\* stop(): line 1626
Stop ==
    /\ running
    /\ running' = FALSE
    /\ UNCHANGED <<check_in_progress, health_data, config, app_settings, network,
                   in_flight, restart, timed, pmVars, probe, late_cycles,
                   pc, frame, workers, ui, reader, log, owes, outcome, written>>

\* a loop that does not look at self.running
LoopWhileForever ==
    /\ pc["loop"] = "while"
    /\ pc' = [pc EXCEPT !["loop"] = "test"]
    /\ UNCHANGED <<running, check_in_progress, health_data, config, app_settings, network,
                   in_flight, restart, timed, pmVars, probe, late_cycles,
                   frame, workers, ui, reader, log, owes, outcome, written>>

\* while self.running: line 1637
LoopWhile ==
    /\ pc["loop"] = "while"
    /\ pc' = [pc EXCEPT !["loop"] = IF running THEN "test" ELSE "exited"]
    /\ UNCHANGED <<running, check_in_progress, health_data, config, app_settings, network,
                   in_flight, restart, timed, pmVars, probe, late_cycles,
                   frame, workers, ui, reader, log, owes, outcome, written>>

\* if not self.check_in_progress: line 1639
LoopTest ==
    /\ pc["loop"] = "test"
    /\ pc' = [pc EXCEPT !["loop"] = IF ~check_in_progress THEN "guard" ELSE "sleep"]
    /\ UNCHANGED <<running, check_in_progress, health_data, config, app_settings, network,
                   in_flight, restart, timed, pmVars, probe, late_cycles,
                   frame, workers, ui, reader, log, owes, outcome, written>>

\* time.sleep(health_check_interval): line 1643
LoopSleep ==
    /\ pc["loop"] = "sleep"
    /\ pc' = [pc EXCEPT !["loop"] = "while"]
    /\ outcome' = [outcome EXCEPT !["loop"] = "none"]
    /\ UNCHANGED <<running, check_in_progress, health_data, config, app_settings, network,
                   in_flight, restart, timed, pmVars, probe, late_cycles,
                   frame, workers, ui, reader, log, owes, written>>

\* time.sleep(3) of _safe_immediate_check: line 1631
InitSleep ==
    /\ pc["init"] = "sleep3"
    /\ pc' = [pc EXCEPT !["init"] = "guard"]
    /\ UNCHANGED <<running, check_in_progress, health_data, config, app_settings, network,
                   in_flight, restart, timed, pmVars, probe, late_cycles,
                   frame, workers, ui, reader, log, owes, outcome, written>>


(***************************************************************************)
(* _check_connections_safely, run by thread t.                             *)
(***************************************************************************)
\* a guard that lets every caller through
GuardNeverSkips(flag) == FALSE

\* if self.check_in_progress: return  (line 1647)
GuardSkips(flag) == flag

\* an exception that nothing catches: the thread ends
RaiseUncaught(t) == IF t = "loop" THEN "exited" ELSE Return(t)

\* an exception inside the try block: logged at 1687, then the finally clause
Raise(t) == "finally"

\* a return that leaves the function at once, with no finally clause
EarlyReturnAtOnce(t) == Return(t)

\* a return inside the try block (1655, 1662): the finally clause runs
EarlyReturn(t) == "finally"

\* a batch loop that steps by one node
NextIByOne(f) == f.i + 1

\* range(0, len(nodes), max_concurrent): the start of the next batch
NextI(f) == f.i + f.max_concurrent

\* a guard whose return sits inside the try block, so that the finally clause runs
GuardReturnInTry(t) == "finally"

\* the return of line 1648: it precedes the try block, so no finally clause runs
GuardReturn(t) == Return(t)

Guard(t) ==
    /\ pc[t] = "guard"
    /\ pc' = [pc EXCEPT ![t] = IF GuardSkips(check_in_progress) THEN GuardReturn(t) ELSE "set"]
    /\ outcome' = [outcome EXCEPT ![t] = IF GuardSkips(check_in_progress) THEN "skipped" ELSE @]
    /\ UNCHANGED <<running, check_in_progress, health_data, config, app_settings, network,
                   in_flight, restart, timed, pmVars, probe, late_cycles,
                   frame, workers, ui, reader, log, owes, written>>

\* self.check_in_progress = True  (line 1650)
SetFlag(t) ==
    /\ pc[t] = "set"
    /\ check_in_progress' = TRUE
    /\ owes' = [owes EXCEPT ![t] = TRUE]
    /\ pc' = [pc EXCEPT ![t] = "load"]
    /\ late_cycles' = IF t = "loop" /\ ~running THEN late_cycles + 1 ELSE late_cycles
    /\ UNCHANGED <<running, health_data, config, app_settings, network,
                   in_flight, restart, timed, pmVars, probe,
                   frame, workers, ui, reader, log, outcome, written>>

\* lines 1653-1668: the config file, the node list, the two settings and the
\* range of the batch loop
Load(t) ==
    /\ pc[t] = "load"
    /\ LET nodes == Get(config.doc, "nodes", <<>>)
           k == app_settings.max_concurrent_checks
       IN IF ~config.exists
          THEN /\ pc' = [pc EXCEPT ![t] = EarlyReturn(t)]
               /\ frame' = frame
          ELSE IF ~config.valid                  \* json.load raises
          THEN /\ pc' = [pc EXCEPT ![t] = Raise(t)]
               /\ frame' = [frame EXCEPT ![t].raised = TRUE]
          ELSE IF nodes = <<>>
          THEN /\ pc' = [pc EXCEPT ![t] = EarlyReturn(t)]
               /\ frame' = frame
          ELSE IF k = 0                          \* range() arg 3 must not be zero
          THEN /\ pc' = [pc EXCEPT ![t] = Raise(t)]
               /\ frame' = [frame EXCEPT ![t].raised = TRUE]
          ELSE IF k < 0                          \* an empty range
          THEN /\ pc' = [pc EXCEPT ![t] = "finally"]
               /\ frame' = frame
          ELSE /\ pc' = [pc EXCEPT ![t] = "start"]
               /\ frame' = [frame EXCEPT ![t] =
                               [nodes |-> nodes, max_concurrent |-> k,
                                timeout |-> app_settings.node_timeout,
                                i |-> 0, j |-> 0, threads |-> <<>>, raised |-> FALSE]]
    /\ UNCHANGED <<running, check_in_progress, health_data, config, app_settings, network,
                   in_flight, restart, timed, pmVars, probe, late_cycles,
                   workers, ui, reader, log, owes, outcome, written>>

\* lines 1672-1679 for one node of the batch: the Thread is created, appended
\* and started; start() raises RuntimeError ("can't start new thread") when
\* the process has no thread left to give
StartWorker(t) ==
    /\ pc[t] = "start"
    /\ LET f == frame[t]
           node == Batch(f)[f.j + 1]
           last == f.j + 1 = Len(Batch(f))
       IN IF Live < MaxThreads
          THEN /\ workers' = Launched(workers, Worker(node, f.timeout))
               /\ in_flight' = [in_flight EXCEPT ![NodeName(node)] = Append(@, Fly(Worker(node, f.timeout)))]
               /\ frame' = [frame EXCEPT ![t].threads = Append(f.threads, NodeName(node)),
                                         ![t].j = IF last THEN 0 ELSE f.j + 1]
               /\ log' = [log EXCEPT ![t] = Append(@, <<"start", NodeName(node)>>)]
               /\ pc' = [pc EXCEPT ![t] = IF last THEN "join" ELSE "start"]
          ELSE /\ frame' = [frame EXCEPT ![t].raised = TRUE]
               /\ pc' = [pc EXCEPT ![t] = Raise(t)]
               /\ UNCHANGED <<workers, in_flight, log>>
    /\ UNCHANGED <<running, check_in_progress, health_data, config, app_settings, network,
                   restart, timed, pmVars, probe, late_cycles,
                   ui, reader, owes, outcome, written>>

\* lines 1681-1684: thread.join(timeout + 1) returns when the worker has
\* ended or when the time is up, whichever comes first; after the last join,
\* the pause and the next value of i
JoinWorker(t) ==
    /\ pc[t] = "join"
    /\ LET f == frame[t]
           last == f.j + 1 = Len(f.threads)
           more == NextI(f) < Len(f.nodes)
       IN /\ log' = [log EXCEPT ![t] = Append(@, <<"join", f.threads[f.j + 1]>>)]
          /\ IF ~last
             THEN /\ frame' = [frame EXCEPT ![t].j = f.j + 1]
                  /\ pc' = pc
             ELSE /\ frame' = [frame EXCEPT ![t].j = 0, ![t].threads = <<>>,
                                            ![t].i = IF more THEN NextI(f) ELSE f.i]
                  /\ pc' = [pc EXCEPT ![t] = IF more THEN "start" ELSE "finally"]
    /\ UNCHANGED <<running, check_in_progress, health_data, config, app_settings, network,
                   in_flight, restart, timed, pmVars, probe, late_cycles,
                   workers, ui, reader, owes, outcome, written>>

\* finally: self.check_in_progress = False  (line 1689), and the return
Finally(t) ==
    /\ pc[t] = "finally"
    /\ check_in_progress' = FALSE
    /\ owes' = [owes EXCEPT ![t] = FALSE]
    /\ frame' = [frame EXCEPT ![t] = BlankFrame]
    /\ log' = [log EXCEPT ![t] = <<>>]
    /\ outcome' = [outcome EXCEPT ![t] =
                    IF frame[t].raised THEN "raised"
                    ELSE IF frame[t].nodes = <<>> THEN "returned"
                    ELSE "completed"]
    /\ pc' = [pc EXCEPT ![t] = Return(t)]
    /\ UNCHANGED <<running, health_data, config, app_settings, network,
                   in_flight, restart, timed, pmVars, probe, late_cycles, workers, ui, reader, written>>

(***************************************************************************)
(* _check_single_node, run by the Thread w.                                *)
(***************************************************************************)
\* a worker that ends without a write once no cycle is traversing batches
WorkerAbandoned(w) ==
    /\ w \in Running
    /\ IF \E t \in CycleThreads : pc[t] \in {"start", "join"}
       THEN \E rec \in ProbeRecords(w.node, network) :
             /\ health_data' = StoreRecord(health_data, NodeName(w.node), rec)
             /\ written' = [n \in DOMAIN written \cup {NodeName(w.node)} |->
                               IF n = NodeName(w.node) THEN rec ELSE written[n]]
       ELSE UNCHANGED <<health_data, written>>
    /\ workers' = Ended(workers, w)
    /\ \E p \in DOMAIN in_flight[NodeName(w.node)] :
          /\ in_flight[NodeName(w.node)][p].w = w
          /\ in_flight' = [in_flight EXCEPT ![NodeName(w.node)] = Retire(@, p)]
    /\ UNCHANGED <<running, check_in_progress, config, app_settings, network,
                   restart, timed, pmVars, probe, late_cycles,
                   pc, frame, ui, reader, log, owes, outcome>>

\* a worker that marks the check as over when it ends
WorkerClearsFlag(w) ==
    /\ w \in Running
    /\ \E rec \in ProbeRecords(w.node, network) :
             /\ health_data' = StoreRecord(health_data, NodeName(w.node), rec)
             /\ written' = [n \in DOMAIN written \cup {NodeName(w.node)} |->
                               IF n = NodeName(w.node) THEN rec ELSE written[n]]
    /\ workers' = Ended(workers, w)
    /\ \E p \in DOMAIN in_flight[NodeName(w.node)] :
          /\ in_flight[NodeName(w.node)][p].w = w
          /\ in_flight' = [in_flight EXCEPT ![NodeName(w.node)] = Retire(@, p)]
    /\ check_in_progress' = FALSE
    /\ UNCHANGED <<running, config, app_settings, network,
                   restart, timed, pmVars, probe, late_cycles,
                   pc, frame, ui, reader, log, owes, outcome>>

WorkerRun(w) ==
    /\ w \in Running
    /\ \E rec \in ProbeRecords(w.node, network) :
             /\ health_data' = StoreRecord(health_data, NodeName(w.node), rec)
             /\ written' = [n \in DOMAIN written \cup {NodeName(w.node)} |->
                               IF n = NodeName(w.node) THEN rec ELSE written[n]]
    /\ workers' = Ended(workers, w)
    /\ \E p \in DOMAIN in_flight[NodeName(w.node)] :
          /\ in_flight[NodeName(w.node)][p].w = w
          /\ in_flight' = [in_flight EXCEPT ![NodeName(w.node)] = Retire(@, p)]
    /\ UNCHANGED <<running, check_in_progress, config, app_settings, network,
                   restart, timed, pmVars, probe, late_cycles,
                   pc, frame, ui, reader, log, owes, outcome>>

(***************************************************************************)
(* The interface used by the Tk thread.                                    *)
(***************************************************************************)
\* a force_check() that starts its thread without looking at the flag
ForceCheckAlways(flag) == TRUE

\* if not self.check_in_progress  (line 1768)
ForceCheckAccepts(flag) == ~flag

\* force_check(): lines 1768-1771; ui keeps the value returned, which
\* manual_connection_check (line 5334) shows in a message box
ForceCheck ==
    /\ IF ForceCheckAccepts(check_in_progress)
       THEN /\ \E f \in ForceThreads : pc[f] = "unspawned"
            /\ LET f == CHOOSE x \in ForceThreads : pc[x] = "unspawned"
               IN /\ pc' = [pc EXCEPT ![f] = "guard"]
                  /\ outcome' = [outcome EXCEPT ![f] = "none"]
            /\ ui' = "true"
       ELSE /\ UNCHANGED <<pc, outcome>>
            /\ ui' = "false"
    /\ UNCHANGED <<running, check_in_progress, health_data, config, app_settings, network,
                   in_flight, restart, timed, pmVars, probe, late_cycles,
                   frame, workers, reader, log, owes, written>>

\* get_health_data(): line 1764
GetHealthData ==
    /\ reader' = SnapshotOf(health_data)
    /\ reader' # reader
    /\ UNCHANGED <<running, check_in_progress, health_data, config, app_settings, network,
                   in_flight, restart, timed, pmVars, probe, late_cycles,
                   pc, frame, workers, ui, log, owes, outcome, written>>

(***************************************************************************)
(* One call of _check_single_node(node, timeout), statement by statement.  *)
(* probe.att is what the network will do to its attempts, probe.rt the     *)
(* local response_time of _check_connectivity (<<>> while unbound),        *)
(* probe.tried the ports a socket was made for, probe.res the value        *)
(* _check_connectivity returned and probe.exc an exception that left it.   *)
(***************************************************************************)
Probes ==
    { [pc |-> "called", node |-> AllNodes[x], att |-> a, ports |-> <<>>, p |-> 1,
       rt |-> <<>>, tried |-> <<>>, res |-> <<>>, exc |-> <<>>, record |-> <<>>] :
         x \in 1..Len(AllNodes), a \in UNION {Attempts(TestPorts(NodeType(AllNodes[y])), "any") : y \in 1..Len(AllNodes)} }

ProbeInit ==
    /\ running = TRUE
    /\ check_in_progress = FALSE
    /\ health_data = EmptyDict
    /\ config = [exists |-> FALSE, valid |-> FALSE, doc |-> EmptyDict]
    /\ app_settings = [max_concurrent_checks |-> MaxConcurrent, node_timeout |-> DefaultNodeTimeout]
    /\ network = "any"
    /\ probe \in {q \in Probes : Len(q.att) = Len(TestPorts(NodeType(q.node)))}
    /\ late_cycles = 0
    /\ in_flight = NoneInFlight
    /\ restart = "none"
    /\ timed = NoTimed
    /\ PMInit
    /\ pc = [t \in CycleThreads |->
                IF t = "loop" THEN "new" ELSE IF t = "init" THEN "unstarted" ELSE "unspawned"]
    /\ frame = [t \in CycleThreads |-> BlankFrame]
    /\ workers = EmptyWorkers
    /\ ui = "none"
    /\ reader = [ref |-> "none", copy |-> EmptyDict]
    /\ log = [t \in CycleThreads |-> <<>>]
    /\ owes = [t \in CycleThreads |-> FALSE]
    /\ outcome = [t \in CycleThreads |-> "none"]
    /\ written = EmptyDict

\* an outer handler that lets the exception through
OuterCatchesNothing == FALSE

\* except Exception (line 1743) catches the UnboundLocalError of line 1741
OuterCatches == TRUE

\* the dict literal of lines 1709-1713
ErrorRecord(node) ==
    [ip |-> NodeIp(node), type |-> NodeType(node), status |-> "Error",
     response_time |-> 0, last_check |-> Now,
     recommendation |-> "Connection failed: str(e)[:50]"]

\* lines 1717-1725: start_time and the candidate ports
ProbeSelectPorts ==
    /\ probe.pc = "called"
    /\ probe' = [probe EXCEPT !.pc = "port", !.ports = TestPorts(NodeType(probe.node))]
    /\ UNCHANGED <<running, check_in_progress, health_data, config, app_settings, network,
                   in_flight, restart, timed, pmVars, late_cycles,
                   pc, frame, workers, ui, reader, log, owes, outcome, written>>

\* lines 1728-1740 for the port probe.ports[probe.p]
ProbeAttempt ==
    /\ probe.pc = "port"
    /\ LET a == probe.att[probe.p]
           tried == Append(probe.tried, probe.ports[probe.p])
           next == IF probe.p < Len(probe.ports) THEN "port" ELSE "after"
       IN probe' =
            IF a.result = "connected"                       \* 1734-1736
            THEN [probe EXCEPT !.tried = tried, !.pc = "write",
                               !.res = <<TRUE, Max(a.at, MinResponseMs)>>]
            ELSE IF a.result = "raised"                     \* 1737-1738
            THEN [probe EXCEPT !.tried = tried, !.pc = next, !.p = @ + 1]
            ELSE [probe EXCEPT !.tried = tried, !.pc = next, !.p = @ + 1,
                               !.rt = <<a.at>>]             \* 1740
    /\ UNCHANGED <<running, check_in_progress, health_data, config, app_settings, network,
                   in_flight, restart, timed, pmVars, late_cycles,
                   pc, frame, workers, ui, reader, log, owes, outcome, written>>

\* line 1741, and lines 1743-1745 when response_time is unbound there
ProbeAfterLoop ==
    /\ probe.pc = "after"
    /\ probe' =
          IF probe.rt # <<>>
          THEN [probe EXCEPT !.pc = "write", !.res = <<FALSE, probe.rt[1]>>]
          ELSE IF OuterCatches
          THEN [probe EXCEPT !.pc = "write",
                             !.res = <<FALSE, probe.att[Len(probe.ports)].at>>]
          ELSE [probe EXCEPT !.pc = "write", !.exc = <<"UnboundLocalError">>]
    /\ UNCHANGED <<running, check_in_progress, health_data, config, app_settings, network,
                   in_flight, restart, timed, pmVars, late_cycles,
                   pc, frame, workers, ui, reader, log, owes, outcome, written>>

\* lines 1698-1713: the record is built and stored
ProbeWrite ==
    /\ probe.pc = "write"
    /\ LET node == probe.node
           rec == IF probe.exc # <<>>
                  THEN ErrorRecord(node)
                  ELSE [ip |-> NodeIp(node), type |-> NodeType(node),
                        status |-> IF probe.res[1] THEN "Healthy" ELSE "Unhealthy",
                        response_time |-> probe.res[2],
                        last_check |-> Now,
                        recommendation |-> _get_recommendation(probe.res[1], probe.res[2], NodeType(node))]
       IN /\ probe' = [probe EXCEPT !.pc = "done", !.record = <<rec>>]
          /\ health_data' = StoreRecord(health_data, NodeName(node), rec)
          /\ written' = [n \in DOMAIN written \cup {NodeName(node)} |->
                            IF n = NodeName(node) THEN rec ELSE written[n]]
    /\ UNCHANGED <<running, check_in_progress, config, app_settings, network,
                   in_flight, restart, timed, pmVars, late_cycles,
                   pc, frame, workers, ui, reader, log, owes, outcome>>

(***************************************************************************)
(* One batch of joins on the clock, in whole seconds from the moment the   *)
(* batch's workers were started (lines 1672-1679 take no time to speak     *)
(* of).  timed.ends[x] is the second at which the worker of batch[x] ends, *)
(* timed.now the clock of the cycle thread, timed.j the next join.         *)
(***************************************************************************)
\* the node_timeout values followed on the clock
Timeouts == 1..DefaultNodeTimeout

\* when a worker may end: _check_connectivity tries its ports one after
\* the other, and each connect_ex lasts at most the socket timeout of
\* line 1730
WorkerEnds(node, timeout) == 0..(Len(TestPorts(NodeType(node))) * timeout)

\* a batch: at most max_concurrent distinct nodes of the config
TimedBatches ==
    {b \in UNION {[1..n -> Range(AllNodes)] : n \in 1..MaxConcurrent} :
        \A x, y \in DOMAIN b : x # y => b[x] # b[y]}

TimedRuns ==
    UNION { UNION { { [pc |-> "join", timeout |-> T, batch |-> b, ends |-> e, j |-> 1, now |-> 0] :
                        e \in {f \in [DOMAIN b -> 0..(2 * T)] :
                                  \A x \in DOMAIN b : f[x] \in WorkerEnds(b[x], T)} } :
                    b \in TimedBatches } :
            T \in Timeouts }

TimedInit ==
    /\ running = TRUE
    /\ check_in_progress = TRUE
    /\ health_data = EmptyDict
    /\ config = [exists |-> FALSE, valid |-> FALSE, doc |-> EmptyDict]
    /\ app_settings = [max_concurrent_checks |-> MaxConcurrent, node_timeout |-> DefaultNodeTimeout]
    /\ network = "down"
    /\ probe = NoProbe
    /\ late_cycles = 0
    /\ in_flight = NoneInFlight
    /\ restart = "none"
    /\ timed \in TimedRuns
    /\ PMInit
    /\ pc = [t \in CycleThreads |->
                IF t = "loop" THEN "new" ELSE IF t = "init" THEN "unstarted" ELSE "unspawned"]
    /\ frame = [t \in CycleThreads |-> BlankFrame]
    /\ workers = EmptyWorkers
    /\ ui = "none"
    /\ reader = [ref |-> "none", copy |-> EmptyDict]
    /\ log = [t \in CycleThreads |-> <<>>]
    /\ owes = [t \in CycleThreads |-> FALSE]
    /\ outcome = [t \in CycleThreads |-> "none"]
    /\ written = EmptyDict

\* thread.join(timeout=timeout + 1), line 1682: it returns when the worker
\* has ended (at once if it had ended before) or timeout + 1 seconds after
\* the call, whichever comes first
JoinReturns(now, end, timeout) == Min(Max(now, end), now + timeout + 1)

\* lines 1681-1682 for the thread timed.j of the batch
TimedJoin ==
    /\ timed.pc = "join"
    /\ timed' = [timed EXCEPT !.now = JoinReturns(timed.now, timed.ends[timed.j], timed.timeout),
                              !.j = @ + 1,
                              !.pc = IF timed.j = Len(timed.batch) THEN "pause" ELSE "join"]
    /\ UNCHANGED <<monitorVars, pmVars>>

\* time.sleep(0.1), line 1684: the pause after the batch
TimedPause ==
    /\ timed.pc = "pause"
    /\ timed' = [timed EXCEPT !.pc = "done"]
    /\ UNCHANGED <<monitorVars, pmVars>>

(***************************************************************************)
(* ProcessManager, as the Tk thread calls it.  pm.pc is the position of    *)
(* the call, pm.from the caller of kill_process (the Tk thread itself or   *)
(* the loop of kill_all), pm.spawned the number of Popen calls so far: the *)
(* pid of a child is its number.                                           *)
(***************************************************************************)
\* the keys of AUTOMATION_SCRIPTS the buttons launch
ScriptKeys == {"version_check", "backup"}

\* the dict literal of lines 1800-1803
Entry(pid) == [pid |-> pid, status |-> "Running"]

\* self.processes[script_key] = {...}
Track(d, key, entry) == [k \in DOMAIN d \cup {key} |-> IF k = key THEN entry ELSE d[k]]

\* del self.processes[script_key]
Del(d, key) == [k \in DOMAIN d \ {key} |-> d[k]]

\* list(self.processes.keys()), in some order
RECURSIVE KeysOf(_)
KeysOf(S) == IF S = {} THEN <<>> ELSE LET k == CHOOSE x \in S : TRUE IN <<k>> \o KeysOf(S \ {k})

\* launch_script(script_key, script_info), lines 1784-1811: the script file
\* is found or not (line 1790); Popen starts a child, and the entry of the
\* key is assigned under the lock
LaunchScript(k) ==
    /\ pm.pc = "idle"
    /\ pm.spawned < MaxLaunches
    /\ process_lock = "free"
    /\ \E found \in BOOLEAN :
          IF found
          THEN LET pid == pm.spawned + 1
               IN /\ alive' = alive \cup {pid}
                  /\ processes' = Track(processes, k, Entry(pid))
                  /\ pm' = [IdleCall(pid) EXCEPT !.ret = "True"]
          ELSE /\ pm' = [IdleCall(pm.spawned) EXCEPT !.ret = "False"]
               /\ UNCHANGED <<alive, processes>>
    /\ UNCHANGED <<process_lock, monitorVars, timed>>

\* a child process ends by itself
ProcessExits(p) ==
    /\ p \in alive
    /\ alive' = alive \ {p}
    /\ UNCHANGED <<processes, process_lock, pm, monitorVars, timed>>

\* the Tk thread calls kill_process(script_key) (line 4251)
KillProcessCall(k) ==
    /\ pm.pc = "idle"
    /\ pm' = [pm EXCEPT !.op = "kill_process", !.pc = "kp_lock", !.key = k,
                        !.from = "tk", !.ret = "none", !.count = 0]
    /\ UNCHANGED <<processes, process_lock, alive, monitorVars, timed>>

\* with self.process_lock, line 1815: threading.Lock is not reentrant, the
\* caller waits until the lock is free, whoever holds it
KpAcquire ==
    /\ pm.pc = "kp_lock"
    /\ process_lock = "free"
    /\ process_lock' = "tk"
    /\ pm' = [pm EXCEPT !.pc = "kp_body"]
    /\ UNCHANGED <<processes, alive, monitorVars, timed>>

\* lines 1816-1845: the child is terminated (and killed if it takes more
\* than a second), its entry is deleted, the lock is released and the call
\* returns to its caller
KpBody ==
    /\ pm.pc = "kp_body"
    /\ LET found == pm.key \in DOMAIN processes
       IN /\ processes' = IF found THEN Del(processes, pm.key) ELSE processes
          /\ alive' = IF found THEN alive \ {processes[pm.key].pid} ELSE alive
          /\ pm' = IF pm.from = "kill_all"
                   THEN [pm EXCEPT !.pc = "ka_loop", !.keys = Tail(@), !.key = "none",
                                   !.count = IF found THEN @ + 1 ELSE @]
                   ELSE [IdleCall(pm.spawned) EXCEPT !.ret = IF found THEN "True" ELSE "False"]
    /\ process_lock' = "free"
    /\ UNCHANGED <<monitorVars, timed>>

\* the Tk thread calls kill_all() (lines 4300, 5182, 6197)
KillAllCall ==
    /\ pm.pc = "idle"
    /\ pm' = [pm EXCEPT !.op = "kill_all", !.pc = "ka_lock", !.ret = "none", !.count = 0]
    /\ UNCHANGED <<processes, process_lock, alive, monitorVars, timed>>

\* count = 0 and with self.process_lock, lines 1892-1894
KaAcquire ==
    /\ pm.pc = "ka_lock"
    /\ process_lock = "free"
    /\ process_lock' = "tk"
    /\ pm' = [pm EXCEPT !.pc = "ka_loop", !.keys = KeysOf(DOMAIN processes)]
    /\ UNCHANGED <<processes, alive, monitorVars, timed>>

\* lines 1894-1898: the next key is handed to kill_process while the lock
\* is held; after the last key the lock is released and count is returned
KaLoop ==
    /\ pm.pc = "ka_loop"
    /\ IF pm.keys = <<>>
       THEN /\ process_lock' = "free"
            /\ pm' = [IdleCall(pm.spawned) EXCEPT !.ret = "count", !.count = pm.count]
       ELSE /\ pm' = [pm EXCEPT !.pc = "kp_lock", !.key = Head(pm.keys), !.from = "kill_all"]
            /\ UNCHANGED process_lock
    /\ UNCHANGED <<processes, alive, monitorVars, timed>>

(***************************************************************************)
(* What the Tk thread does to the config file and to the settings while    *)
(* the monitor runs.                                                       *)
(***************************************************************************)
\* save_node and delete_node rewrite master_config.json (open(..., 'w')
\* truncates it before json.dump fills it); the backup dialog restores or
\* the user removes it
EditConfig(files) ==
    /\ config' \in files \ {config}
    /\ UNCHANGED <<running, check_in_progress, health_data, app_settings, network,
                   in_flight, restart, timed, pmVars, probe, late_cycles,
                   pc, frame, workers, ui, reader, log, owes, outcome, written>>

\* apply_settings, line 5349
ApplyTimeout ==
    /\ \E v \in {DefaultNodeTimeout, MaxNodeTimeout} \ {app_settings.node_timeout} :
          app_settings' = [app_settings EXCEPT !.node_timeout = v]
    /\ UNCHANGED <<running, check_in_progress, health_data, config, network,
                   in_flight, restart, timed, pmVars, probe, late_cycles,
                   pc, frame, workers, ui, reader, log, owes, outcome, written>>

\* apply_settings, line 5362
ApplyMaxConcurrent ==
    /\ \E k \in (0..MaxConcurrent) \ {app_settings.max_concurrent_checks} :
          app_settings' = [app_settings EXCEPT !.max_concurrent_checks = k]
    /\ UNCHANGED <<running, check_in_progress, health_data, config, network,
                   in_flight, restart, timed, pmVars, probe, late_cycles,
                   pc, frame, workers, ui, reader, log, owes, outcome, written>>

(***************************************************************************)
(* The specifications.  Spec is the scheduler with all its threads: the    *)
(* loop, the delayed initial check, force_check() and stop().  BatchSpec   *)
(* follows the loop thread alone through longer node lists, and StoreSpec  *)
(* adds a reader of health_data to it.                                      *)
(***************************************************************************)
Cycle(t) ==
    \/ Guard(t)
    \/ SetFlag(t)
    \/ Load(t)
    \/ StartWorker(t)
    \/ JoinWorker(t)
    \/ Finally(t)

Loop ==
    \/ LoopWhile
    \/ LoopTest
    \/ LoopSleep
    \/ Cycle("loop")

Next ==
    \/ Start
    \/ Stop
    \/ Loop
    \/ InitSleep
    \/ Cycle("init")
    \/ \E t \in ForceThreads : Cycle(t)
    \/ \E w \in Running : WorkerRun(w)
    \/ ForceCheck

Spec == Init /\ [][Next]_vars

\* Every started Python thread keeps being scheduled, and start() follows the
\* construction of the monitor (lines 1952-1957).  Nothing is assumed of the
\* workers, of stop() or of force_check().
Fairness ==
    /\ WF_vars(Start)
    /\ WF_vars(Loop)
    /\ WF_vars(InitSleep \/ Cycle("init"))
    /\ \A f \in ForceThreads : WF_vars(Cycle(f))

\* The scheduling claims do not depend on what the probes find: they are
\* checked with every host unreachable.
SchedInit == InitWith(1, "down")

FairSpec == SchedInit /\ [][Next]_vars /\ Fairness

NextBatch ==
    \/ Start
    \/ Loop
    \/ \E w \in Running : WorkerRun(w)

BatchSpec == BatchInit /\ [][NextBatch]_vars

\* the loop thread keeps being scheduled; nothing is assumed of the workers
FairBatchSpec == BatchSpec /\ WF_vars(Start) /\ WF_vars(Loop)

NextStore ==
    \/ Start
    \/ Loop
    \/ \E w \in Running : WorkerRun(w)
    \/ GetHealthData

StoreSpec == StoreInit /\ [][NextStore]_vars

\* StopSpec: the loop thread and stop(), over the longest node lists; the
\* loop thread keeps being scheduled, nothing is assumed of the workers
NextStop ==
    \/ Start
    \/ Stop
    \/ Loop
    \/ \E w \in Running : WorkerRun(w)

StopSpec == BatchInit /\ [][NextStop]_vars /\ WF_vars(Start) /\ WF_vars(Loop)

\* RestartSpec: the loop thread, stop() and a second start()
NextRestart ==
    \/ Start
    \/ Stop
    \/ StartAgain
    \/ Loop
    \/ \E w \in Running : WorkerRun(w)

RestartSpec == BatchInit /\ [][NextRestart]_vars /\ WF_vars(Start) /\ WF_vars(Loop)

\* LiveSpec: start(), the loop, the delayed initial check, stop() and the
\* workers; every started thread keeps being scheduled, and so does every
\* worker: each of its connects ends within the socket timeout
LiveInit == InitWith(2, "down")

NextLive ==
    \/ Start
    \/ Stop
    \/ Loop
    \/ InitSleep
    \/ Cycle("init")
    \/ \E w \in Running : WorkerRun(w)

AllWorkers == {Worker(AllNodes[x], DefaultNodeTimeout) : x \in 1..Len(AllNodes)}

LiveFairness ==
    /\ WF_vars(Start)
    /\ WF_vars(Loop)
    /\ WF_vars(InitSleep \/ Cycle("init"))
    /\ \A w \in AllWorkers : WF_vars(WorkerRun(w))

LiveSpec == LiveInit /\ [][NextLive]_vars /\ LiveFairness

\* TimedSpec: the joins of one batch, for every batch of at most
\* MaxConcurrent nodes, every timeout and every duration of the workers
NextTimed ==
    \/ TimedJoin
    \/ TimedPause

TimedSpec == TimedInit /\ [][NextTimed]_vars

\* PMSpec: the ProcessManager while scripts are launched, end by
\* themselves and are killed; a call that the Tk thread has entered keeps
\* running, nothing is assumed of the calls the user makes
PMSpecInit ==
    /\ InitWith(0, "down")
    /\ ~config.exists /\ ~config.valid
    /\ app_settings.max_concurrent_checks = MaxConcurrent

InCall ==
    \/ KpAcquire
    \/ KpBody
    \/ KaAcquire
    \/ KaLoop

NextPM ==
    \/ \E k \in ScriptKeys : LaunchScript(k)
    \/ \E p \in alive : ProcessExits(p)
    \/ \E k \in ScriptKeys : KillProcessCall(k)
    \/ KillAllCall
    \/ InCall

PMSpec == PMSpecInit /\ [][NextPM]_vars /\ WF_vars(InCall)

\* ProbeSpec: one worker, for every node type and every behaviour of the
\* network
NextProbe ==
    \/ ProbeSelectPorts
    \/ ProbeAttempt
    \/ ProbeAfterLoop
    \/ ProbeWrite

ProbeSpec == ProbeInit /\ [][NextProbe]_vars

\* EvictSpec: every operation of the monitor, over a config file that is
\* edited while the monitor runs
\* the files the edits of EvictSpec leave on disk: a node list of one or two
\* nodes, or the truncated file of a rewrite in progress
EvictFiles == {c \in ConfigFiles(2) : c.exists /\ (c.valid => "nodes" \in DOMAIN c.doc /\ c.doc["nodes"] # <<>>)}

EvictInit == InitWith(2, "down") /\ app_settings.max_concurrent_checks = 1 /\ config \in EvictFiles

NextEvict ==
    \/ Start
    \/ Stop
    \/ Loop
    \/ \E t \in ForceThreads : Cycle(t)
    \/ \E w \in Running : WorkerRun(w)
    \/ ForceCheck
    \/ GetHealthData
    \/ EditConfig(EvictFiles)

EvictSpec == EvictInit /\ [][NextEvict]_vars

\* EditSpec: the loop thread while the config file and the two settings
\* are edited
EditInit == InitWith(2, "down")

NextEdit ==
    \/ Start
    \/ Loop
    \/ \E w \in Running : WorkerRun(w)
    \/ EditConfig(ConfigFiles(2))
    \/ ApplyTimeout
    \/ ApplyMaxConcurrent

EditSpec == EditInit /\ [][NextEdit]_vars

(***************************************************************************)
(* The claims.                                                             *)
(***************************************************************************)
\* thread t has set check_in_progress and is loading the config or
\* traversing the batches
InCycle(t) == pc[t] \in {"load", "start", "join", "finally"}

\* C1: in every reachable state at most one execution of
\* _check_connections_safely is past the in-progress guard.
C1_AtMostOneCycle == Cardinality({t \in CycleThreads : InCycle(t)}) <= 1

\* C2: the thread spawned by a force_check() that returned True always gets
\* past the guard and performs a cycle; it never returns at line 1648 without
\* doing anything.
C2_AcceptedForceCheckRuns ==
    [][\A f \in ForceThreads : (pc[f] = "guard" /\ pc'[f] # "guard") => pc'[f] = "set"]_vars

\* a step of force_check(): the value it returned changed, or it spawned a thread
ForceCheckStep ==
    \/ ui' # ui
    \/ \E f \in ForceThreads : pc[f] = "unspawned" /\ pc'[f] # "unspawned"

\* C3: a force_check() made while check_in_progress is True returns False,
\* spawns no thread, launches no worker and leaves check_in_progress, running
\* and health_data as they are.
C3_RejectedForceCheck ==
    [][(check_in_progress /\ ForceCheckStep) =>
          /\ ui' = "false"
          /\ UNCHANGED <<pc, frame, workers, check_in_progress, running, health_data>>]_vars

\* a force_check() was rejected while a cycle holds the flag
C3_Witness == ui = "false" /\ check_in_progress /\ \E t \in CycleThreads : InCycle(t)

\* C4: every cycle that sets check_in_progress to True eventually sets it
\* back to False, whether it completes, returns early, raises, or has workers
\* that never finish.  owes[t] holds from the cycle's assignment of True
\* (line 1650) to its assignment of False (line 1689): the step that ends it
\* leaves the flag False, and no thread stays in it for ever.
C4_FlagReset ==
    /\ [][\A t \in CycleThreads : (owes[t] /\ ~owes'[t]) => ~check_in_progress']_vars
    /\ \A t \in CycleThreads : []<>(~owes[t])

\* the loop's cycle has completed and reset the flag while a worker it
\* launched is still running (nobody else has launched one)
C4_Witness ==
    /\ outcome["loop"] = "completed" /\ ~owes["loop"] /\ ~check_in_progress
    /\ Live > 0
    /\ pc["init"] = "sleep3" /\ ui = "none"

C6_WorkersBounded == Live <= app_settings.max_concurrent_checks

NamesOf(nodes) == [x \in 1..Len(nodes) |-> NodeName(nodes[x])]

\* the starts and joins of a cycle over `names` in batches of k: batch by
\* batch, all starts of a batch, then all its joins
RECURSIVE ExpectedLog(_, _)
ExpectedLog(names, k) ==
    IF names = <<>> THEN <<>>
    ELSE LET b == Min(k, Len(names))
         IN [x \in 1..b |-> <<"start", names[x]>>]
            \o [x \in 1..b |-> <<"join", names[x]>>]
            \o ExpectedLog(SubSeq(names, b + 1, Len(names)), k)

IsPrefix(a, b) == Len(a) <= Len(b) /\ SubSeq(b, 1, Len(a)) = a

\* the lengths of the runs of starts in a log
RECURSIVE BatchSizes(_, _)
BatchSizes(l, run) ==
    IF l = <<>> THEN IF run > 0 THEN <<run>> ELSE <<>>
    ELSE IF Head(l)[1] = "start" THEN BatchSizes(Tail(l), run + 1)
    ELSE IF run > 0 THEN <<run>> \o BatchSizes(Tail(l), 0)
    ELSE BatchSizes(Tail(l), 0)

\* ceil(n / k) batches of k, the last one with what is left
ExpectedSizes(n, k) ==
    [b \in 1..((n + k - 1) \div k) |-> IF b * k <= n THEN k ELSE n - (b - 1) * k]

\* C7: a cycle over n nodes with max_concurrent k >= 1 starts one worker per
\* entry, in list order, in ceil(n/k) consecutive batches of k (the last
\* possibly smaller), and starts no worker of a batch before every worker of
\* the batch before has been started and joined; a cycle in which no
\* exception is raised does so for the whole list.
C7_Batches ==
    \A t \in CycleThreads :
        (pc[t] \in {"start", "join", "finally"} /\ frame[t].nodes # <<>>) =>
            LET f == frame[t]
                expected == ExpectedLog(NamesOf(f.nodes), f.max_concurrent)
            IN /\ IsPrefix(log[t], expected)
               /\ (pc[t] = "finally" /\ ~f.raised) =>
                     /\ log[t] = expected
                     /\ BatchSizes(log[t], 0) = ExpectedSizes(Len(f.nodes), f.max_concurrent)

\* C7 as stated, for every cycle: a cycle over a list with k >= 1 has, when
\* it ends, started and joined one worker per entry.
C7_EveryCycleLaunchesAll ==
    \A t \in CycleThreads :
        (pc[t] = "finally" /\ frame[t].nodes # <<>> /\ frame[t].max_concurrent >= 1) =>
            log[t] = ExpectedLog(NamesOf(frame[t].nodes), frame[t].max_concurrent)

\* three nodes in batches of two: the cycle ends after batches of 2 and 1
C7_Witness ==
    /\ pc["loop"] = "finally" /\ ~frame["loop"].raised
    /\ Len(frame["loop"].nodes) = 3 /\ frame["loop"].max_concurrent = 2
    /\ BatchSizes(log["loop"], 0) = <<2, 1>>

\* the records one probe of the node called n can produce
RecordsFor(n) ==
    UNION { ProbeRecords(AllNodes[x], "any") : x \in {y \in 1..Len(AllNodes) : NodeName(AllNodes[y]) = n} }

\* C8: every record a reader holds has its six fields from one single probe
\* of the node it is filed under.
C8_WholeRecords ==
    \A n \in DOMAIN Seen :
        /\ DOMAIN Seen[n] = {"ip", "type", "status", "response_time", "last_check", "recommendation"}
        /\ Seen[n] \in RecordsFor(n)

\* a reader holds records while the cycle is in progress and workers run
C8_Witness ==
    /\ reader.ref = "copy" /\ DOMAIN reader.copy # {}
    /\ check_in_progress /\ Live > 0

\* C9: what get_health_data() returned is the content of health_data at the
\* call and stays as it is under every later step; the call changes nothing
\* in health_data, check_in_progress or running.
C9_Snapshot ==
    [][/\ (reader' = reader) => (Seen' = Seen)
       /\ (reader' # reader) =>
             /\ Seen' = health_data
             /\ UNCHANGED <<health_data, check_in_progress, running>>]_vars

\* since the call a worker has added a name and another has replaced a record
C9_Witness ==
    /\ reader.ref = "copy"
    /\ DOMAIN reader.copy # DOMAIN health_data
    /\ \E n \in DOMAIN reader.copy : health_data[n] # reader.copy[n]

\* C10: health_data holds one record for each name ever written and no
\* other, and it is the record of the most recent write for that name.
C10_LastWriteWins ==
    /\ DOMAIN health_data = DOMAIN written
    /\ \A n \in DOMAIN written : health_data[n] = written[n]

\* a name has been written again with another record: the reader still has
\* the earlier one
C10_Witness ==
    \E n \in DOMAIN reader.copy :
        /\ n \in DOMAIN health_data
        /\ health_data[n].status # reader.copy[n].status
        /\ health_data[n] = written[n]

RecordFields == {"ip", "type", "status", "response_time", "last_check", "recommendation"}

\* C11: the set of node names in health_data never shrinks: no step of any
\* operation (a cycle that succeeds or fails, a cycle over a config from
\* which a node was removed, force_check, stop, get_health_data) removes a
\* name or leaves less than a whole record under it.
C11_NoEviction ==
    [][/\ DOMAIN health_data \subseteq DOMAIN health_data'
       /\ \A n \in DOMAIN health_data : DOMAIN health_data'[n] = RecordFields]_vars

\* the loop ends a cycle over the node list now on disk, nothing raised,
\* and health_data still has a name that this list does not have
C11_Witness ==
    /\ pc["loop"] = "finally" /\ ~frame["loop"].raised
    /\ frame["loop"].nodes # <<>>
    /\ frame["loop"].nodes = Get(config.doc, "nodes", <<>>)
    /\ \E n \in DOMAIN health_data : n \notin Range(NamesOf(frame["loop"].nodes))

\* a socket call of the probe raised (DNS resolution, socket creation, ...)
ProbeHitException == \E x \in 1..(Len(probe.tried)) : probe.att[x].result = "raised"

\* C12: when the probe of a node hits an unexpected exception, the record
\* written for the node has status 'Error', response_time 0 and a
\* recommendation that carries the truncated message.
C12_ErrorRecorded ==
    (probe.pc = "done" /\ ProbeHitException) =>
        /\ probe.record[1].status = "Error"
        /\ probe.record[1].response_time = 0
        /\ probe.record[1].recommendation = ErrorRecord(probe.node).recommendation

\* an elapsed time read during the probe
Elapsed == {probe.att[x].at : x \in 1..Len(probe.att)}

\* C13: _check_connectivity never raises: an error on one candidate port
\* counts as a failed attempt for that port, the next candidate port is
\* still tried, and when every port fails or errors the result is False
\* with an elapsed time.
C13_NeverRaises ==
    /\ probe.pc # "none" => probe.exc = <<>>
    /\ probe.pc \in {"write", "done"} =>
          /\ probe.res # <<>>
          /\ (\A x \in 1..Len(probe.att) : probe.att[x].result # "connected") =>
                /\ probe.tried = probe.ports
                /\ probe.res[1] = FALSE
                /\ probe.res[2] \in Elapsed
          /\ \A x \in 1..(Len(probe.tried) - 1) :
                probe.att[x].result = "raised" => probe.tried[x + 1] = probe.ports[x + 1]

\* both candidate ports raised and the probe returned False
C13_Witness ==
    /\ probe.pc = "done" /\ Len(probe.ports) = 2
    /\ \A x \in 1..2 : probe.att[x].result = "raised"
    /\ probe.tried = probe.ports /\ probe.res[1] = FALSE
    /\ probe.record[1].status = "Unhealthy"

\* the candidate ports as the claim lists them
ExpectedPorts(node_type) ==
    CASE node_type = "ssh" -> <<22>>
      [] node_type = "telnet" -> <<23>>
      [] OTHER -> <<22, 23>>

\* C14: the probe tries [22] for 'ssh', [23] for 'telnet' and [22, 23] for
\* any other type, in that order; it returns success at the first port that
\* connects, without trying a later one and with a response time of at least
\* 1 ms, and returns failure only after every candidate port was tried.
C14_PortOrder ==
    probe.pc # "none" =>
        LET expected == ExpectedPorts(NodeType(probe.node))
            n == Len(probe.tried)
        IN /\ IsPrefix(probe.tried, expected)
           /\ \A x \in 1..(n - 1) : probe.att[x].result # "connected"
           /\ (probe.res # <<>> /\ probe.res[1]) =>
                 /\ probe.att[n].result = "connected"
                 /\ probe.res[2] >= 1
           /\ (probe.res # <<>> /\ ~probe.res[1]) =>
                 /\ probe.tried = expected
                 /\ probe.att[n].result # "connected"

\* a node of another type answers on port 22 at once: port 23 is not tried
\* and the response time is 1 ms
C14_Witness ==
    /\ probe.pc = "done" /\ NodeType(probe.node) = "router"
    /\ probe.tried = <<22>> /\ probe.att[1].at = 0
    /\ probe.res = <<TRUE, 1>>

\* the statement-by-statement probe returns what _check_connectivity gives
ProbeAgrees ==
    (probe.pc \in {"write", "done"} /\ probe.exc = <<>>) =>
        probe.res = _check_connectivity(NodeType(probe.node), probe.att)

\* the config file is absent, or its 'nodes' list is absent or empty
NoNodes(c) == ~c.exists \/ (c.valid /\ Get(c.doc, "nodes", <<>>) = <<>>)

\* C15: a cycle that finds the config file absent, or the 'nodes' list
\* absent or empty, launches no worker, writes nothing to health_data,
\* raises nothing and resets check_in_progress; with such a config
\* health_data stays empty and get_health_data() returns an empty mapping.
C15_NoOpCycle ==
    /\ [][\A t \in CycleThreads :
            (pc[t] = "load" /\ pc'[t] # "load" /\ NoNodes(config)) =>
                /\ pc'[t] = "finally"
                /\ frame'[t].nodes = <<>> /\ ~frame'[t].raised
                /\ UNCHANGED <<workers, health_data>>]_vars
    /\ [][\A t \in CycleThreads :
            (pc[t] = "finally" /\ pc'[t] # "finally" /\ frame[t].nodes = <<>> /\ ~frame[t].raised) =>
                /\ ~check_in_progress'
                /\ outcome'[t] = "returned"
                /\ UNCHANGED <<workers, health_data>>]_vars
    /\ [](NoNodes(config) => (health_data = EmptyDict /\ Seen = EmptyDict /\ Live = 0))

\* the loop has come back from a cycle over a config without nodes and a
\* reader has called get_health_data() since
C15_Witness ==
    /\ NoNodes(config)
    /\ outcome["loop"] = "returned" /\ pc["loop"] = "sleep" /\ ~check_in_progress
    /\ reader.ref = "copy" /\ reader.copy = EmptyDict

\* thread t is in a cycle in which an exception has been raised
Raised(t) == frame[t].raised

\* C16: an exception raised inside a cycle (malformed config, a
\* max_concurrent_checks of 0, a thread that cannot be started) does not
\* escape the cycle: the records written so far stay in health_data, the
\* cycle launches nothing after the failing point, it resets
\* check_in_progress and returns to its caller, and the periodic loop goes
\* on to its next test of the flag (or ends on stop()).
C16_CycleException ==
    /\ [][\A t \in CycleThreads :
            /\ (~Raised(t) /\ Raised(t)') =>
                  /\ pc'[t] = "finally"
                  /\ UNCHANGED <<health_data, workers>>
            /\ (Raised(t) /\ pc'[t] # pc[t]) =>
                  /\ pc'[t] = Return(t)
                  /\ outcome'[t] = "raised"
                  /\ ~check_in_progress'
                  /\ DOMAIN health_data \subseteq DOMAIN health_data'
            /\ (Raised(t) /\ Raised(t)') => log'[t] = log[t]]_vars
    /\ (outcome["loop"] = "raised") ~> (pc["loop"] \in {"test", "exited"})

\* the loop is back from a cycle in which a thread could not be started:
\* the cycle had started workers before, and records stand in health_data
C16_Witness ==
    /\ pc["loop"] = "finally" /\ Raised("loop")
    /\ log["loop"] # <<>>
    /\ health_data # EmptyDict
    /\ Len(log["loop"]) < Len(ExpectedLog(NamesOf(frame["loop"].nodes), frame["loop"].max_concurrent))

\* the workers thread t has started in its current cycle
NumStarts(t) == Cardinality({x \in 1..Len(log[t]) : log[t][x][1] = "start"})

\* C17: a cycle works on the node list, max_concurrent_checks and
\* node_timeout it read at its start (lines 1660-1665): the cycle takes the
\* values the file and the settings hold at that moment, edits made while
\* it runs change none of its three values, and each worker it starts gets
\* the next node of its own list and its own timeout, in batches of its own
\* size.
C17_ReadOncePerCycle ==
    /\ [][\A t \in CycleThreads :
            /\ (pc[t] = "load" /\ pc'[t] = "start") =>
                  /\ frame'[t].nodes = config.doc["nodes"]
                  /\ frame'[t].max_concurrent = app_settings.max_concurrent_checks
                  /\ frame'[t].timeout = app_settings.node_timeout
            /\ (pc[t] \in {"start", "join"}) =>
                  /\ frame'[t].nodes = frame[t].nodes
                  /\ frame'[t].max_concurrent = frame[t].max_concurrent
                  /\ frame'[t].timeout = frame[t].timeout
            /\ (pc[t] = "start" /\ log'[t] # log[t]) =>
                  workers' = workers (+) SetToBag({[node |-> frame[t].nodes[NumStarts(t) + 1],
                                                   timeout |-> frame[t].timeout]})]_vars
    /\ []C7_Batches

\* in the middle of a cycle the file and both settings differ from what
\* the cycle read, and a worker of the cycle runs with the cycle's timeout
C17_Witness ==
    /\ pc["loop"] = "start" /\ log["loop"] # <<>>
    /\ frame["loop"].nodes # Get(config.doc, "nodes", <<>>)
    /\ frame["loop"].max_concurrent # app_settings.max_concurrent_checks
    /\ frame["loop"].timeout # app_settings.node_timeout
    /\ \E w \in Running : w.timeout = frame["loop"].timeout

\* the loop thread is between `while self.running` and the assignment of
\* True to check_in_progress
PastWhile == pc["loop"] \in {"test", "guard", "set"}

Configured(x) == config.exists /\ config.valid /\ Len(Get(config.doc, "nodes", <<>>)) >= x

C20_LateWrite ==
    /\ [][/\ (workers' # workers /\ Live' < Live) =>
                \E w \in Running :
                    /\ workers' = Ended(workers, w)
                    /\ DOMAIN health_data' = DOMAIN health_data \cup {NodeName(w.node)}
                    /\ health_data'[NodeName(w.node)] \in ProbeRecords(w.node, network)
                    /\ \A n \in DOMAIN health_data \ {NodeName(w.node)} :
                          health_data'[n] = health_data[n]
          /\ (health_data' # health_data \/ written' # written) => Live' = Live - 1]_vars
    /\ \A w \in AllWorkers : (w \in Running) ~> (NodeName(w.node) \in DOMAIN health_data)
    /\ [](~running => <>[](Live = 0))

\* stop() has been called, the loop has exited and the initial check has
\* ended, and a worker still runs whose node has no record yet
C20_Witness ==
    /\ ~running /\ pc["loop"] = "exited" /\ pc["init"] = "done"
    /\ ~check_in_progress
    /\ \E w \in Running : NodeName(w.node) \notin DOMAIN health_data

\* C23: a cycle attempt that finds check_in_progress True (a periodic tick
\* at line 1639, or a call of _check_connections_safely by the loop, the
\* delayed initial check or a force_check thread at line 1647) returns
\* without launching a worker and without writing check_in_progress; only a
\* thread that has set the flag comes to the assignment that resets it.
C23_SkippedAttempt ==
    [][/\ \A t \in CycleThreads :
             (pc[t] = "guard" /\ check_in_progress /\ pc'[t] # "guard") =>
                 (/\ pc'[t] = Return(t)
                  /\ UNCHANGED <<check_in_progress, workers, health_data, owes, frame>>)
       /\ (pc["loop"] = "test" /\ check_in_progress /\ pc'["loop"] # "test") =>
                 (/\ pc'["loop"] = "sleep"
                  /\ UNCHANGED <<check_in_progress, workers, health_data, owes, frame>>)
       /\ \A t \in CycleThreads : (pc[t] = "finally" /\ pc'[t] # "finally") => owes[t]]_vars

\* the thread of a force_check() has returned at line 1648 while another
\* thread's cycle is joining its workers, and the flag is still True
C23_Witness ==
    /\ outcome["force1"] = "skipped" /\ pc["force1"] = "unspawned"
    /\ check_in_progress
    /\ \E t \in {"loop", "init"} : pc[t] = "join"

\* thread t executes line 1650
SetsFlag(t) == pc[t] = "set" /\ pc'[t] = "load"

\* thread t executes line 1689
ResetsFlag(t) == pc[t] = "finally" /\ pc'[t] # "finally"

\* every cycle assigns False once, at its end: a thread owes the reset from
\* line 1650 on, stays inside the function while it owes it, pays it by the
\* one execution of line 1689, and the flag changes in no other step
ResetOncePerCycle ==
    /\ \A t \in CycleThreads : (~owes[t] /\ owes'[t]) <=> SetsFlag(t)
    /\ \A t \in CycleThreads : (owes[t] /\ ~owes'[t]) <=> ResetsFlag(t)
    /\ \A t \in CycleThreads : SetsFlag(t) => check_in_progress'
    /\ \A t \in CycleThreads : ResetsFlag(t) => ~check_in_progress'
    /\ \A t \in CycleThreads : owes'[t] => InCycle(t)'
    /\ (check_in_progress' # check_in_progress) =>
           \E t \in CycleThreads : SetsFlag(t) \/ ResetsFlag(t)

\* C24 as stated: check_in_progress is set to True only by the scheduler
\* loop thread, and it is set to False exactly once per cycle, at the end of
\* that cycle.
C24_OnlyLoopSets ==
    [][/\ \A t \in CycleThreads : SetsFlag(t) => t = "loop"
       /\ ResetOncePerCycle]_vars

\* C24: check_in_progress is set to True by whichever thread runs
\* _check_connections_safely past its guard (the loop thread, the delayed
\* initial check or a thread of force_check), at line 1650 and nowhere else,
\* and every such cycle sets it to False exactly once, at its end.
C24_FlagWriters ==
    [][/\ \A t \in CycleThreads : SetsFlag(t) => ~owes[t]
       /\ ResetOncePerCycle]_vars

\* a thread of force_check holds the flag; neither the loop nor the initial
\* check is in a cycle
C24_Witness ==
    /\ owes["force1"] /\ check_in_progress
    /\ ~owes["loop"] /\ ~owes["init"]

\* C26: check_in_progress is True in every state in which some cycle is
\* between its assignment of True and its final reset.
C26_FlagCoversCycle == \A t \in CycleThreads : owes[t] => check_in_progress

\* no thread is attempting or performing a cycle
Quiet ==
    /\ pc["loop"] \in {"new", "while", "sleep", "exited"}
    /\ pc["init"] \in {"unstarted", "sleep3", "done"}
    /\ \A f \in ForceThreads : pc[f] = "unspawned"

\* C28: once stop() has been called and the cycle in flight has finished,
\* no thread starts a new cycle and no new worker is launched.
C28_NoCycleAfterStop ==
    []((~running /\ Quiet) => [](\A t \in CycleThreads : ~owes[t] /\ pc[t] # "start"))

\* C30: the step in which a worker ends changes health_data at the
\* worker's own node name only: every other name keeps its record, no name
\* but the worker's own is added, and check_in_progress, running, the
\* settings, the config and the cycle threads are as before.
C30_WorkerFrame ==
    [][(workers' # workers /\ Live' < Live) =>
          \E w \in Running :
              /\ workers' = Ended(workers, w)
              /\ DOMAIN health_data \subseteq DOMAIN health_data'
              /\ DOMAIN health_data' \ DOMAIN health_data \subseteq {NodeName(w.node)}
              /\ \A n \in DOMAIN health_data \ {NodeName(w.node)} :
                    health_data'[n] = health_data[n]
              /\ UNCHANGED <<check_in_progress, running, config, app_settings, pc, frame>>]_vars

\* both workers of a batch have written, each next to the other's record,
\* while the cycle that launched them holds the flag
C30_Witness ==
    /\ pc["loop"] = "join" /\ check_in_progress /\ running
    /\ Live = 0
    /\ DOMAIN health_data = {NodeName(AllNodes[1]), NodeName(AllNodes[2])}

\* the worker at position p of its node's running workers writes and ends
Retires(n, p) ==
    /\ workers' # workers
    /\ in_flight' = [in_flight EXCEPT ![n] = Retire(@, p)]

\* C27: once a worker has written the record of a node, no worker of that
\* node that was started before it writes the record afterwards, so the
\* record stored for a node comes from the most recently started probe of
\* that node that has finished.
C27_NoStaleWrite ==
    [][\A n \in Names : \A p \in DOMAIN in_flight[n] :
          Retires(n, p) => ~in_flight[n][p].superseded]_vars

\* C25: start() on a monitor that stop() has stopped makes running true
\* again, and the scheduler loop performs further cycles.
C25_RestartResumes ==
    /\ [][(~running /\ restart' # restart) => (running' /\ restart' = "started")]_vars
    /\ [](restart # "none" => <>(\E t \in CycleThreads : owes[t]))

\* C21: the time the cycle thread spends on the joins of one batch is at
\* most timeout + 1 seconds, whatever the number of nodes in the batch.
C21_BatchWait == timed.pc \in {"pause", "done"} => timed.now <= timed.timeout + 1

\* C22: kill_all() always returns: with n >= 1 tracked processes it ends
\* with an empty process table and returns n, the number of kills.
C22_KillAllReturns ==
    \A n \in 1..Cardinality(ScriptKeys) :
        (pm.pc = "ka_lock" /\ Cardinality(DOMAIN processes) = n) ~>
            (pm.op = "none" /\ pm.ret = "count" /\ pm.count = n /\ processes = EmptyDict)

\* C29: every child started by launch_script that is still running and
\* has not been killed through the manager has an entry in the process
\* table (between two calls of the manager).
C29_Tracked ==
    pm.pc = "idle" => \A p \in alive : \E k \in DOMAIN processes : processes[k].pid = p

====
